---- MODULE Spec2Model ----
(***************************************************************************)
(* Model of the CryptoGodEngine of mcp-global-intelligence: the indicator  *)
(* functions (calculateSMA, calculateRSI, calculateBollingerBands,         *)
(* calculateSupportResistance), the pattern heuristics (analyzeElliottWave,*)
(* analyzeWyckoff), the report built by calculateSimpleTechnicals and the  *)
(* composite prediction of generateGodPrediction, as they are written in   *)
(* src/unnamed/part_000, the calculateSupportResistance variant of         *)
(* src/mcp-gateway.js, and the message handler of the MCP WebSocket server *)
(* with handleMCPRequest.                                                  *)
(*                                                                         *)
(* In the indicator functions JavaScript Numbers are modelled as rationals *)
(* <<n, d>> (d > 0, lowest terms).  Every arithmetic operation of these    *)
(* functions goes through the N* operators, which round the exact result   *)
(* to a binary significand of `mant` bits (round to nearest, ties to       *)
(* even); mant = 0 stands for an unbounded significand, i.e. exact         *)
(* arithmetic.  The composite score of generateGodPrediction is computed   *)
(* in IEEE 754 binary64 (the D* operators), bit for bit.                   *)
(***************************************************************************)
EXTENDS Integers, Sequences, FiniteSets, TLC

VARIABLES
    pc,          \* position of the running call: "call", "return", or a step of the god_analysis or WebSocket handler
    prices,      \* the `prices` argument of the indicator function being called (plain numbers)
    period,      \* the `period` argument
    multiplier,  \* the `multiplier` argument of calculateBollingerBands
    mant,        \* significand width of the Number arithmetic (0 = exact)
    ret,         \* the value returned by the call
    historical,  \* marketData.historical.prices: sequence of <<timestamp, price>>
    technicals,  \* result of calculateSimpleTechnicals (NULL or a record)
    sentiment,   \* result of getNewsSentiment
    marketStructure, \* result of marketStructureAnalysis
    prediction,  \* result of generateGodPrediction
    coin,        \* marketData.coin.market_data: market_cap and total_volume (units of 10^8 USD)
    outcome,     \* how the handler ended: "pending", "returned", "error" or "rejected"
    volume,      \* the `volume` argument of analyzeWyckoff
    ret2,        \* the value returned by a second call on the same arguments
    message,     \* the message received on the WebSocket connection (NULL before it arrives)
    frames,      \* the frames sent on the WebSocket connection, in order
    error        \* the error caught by the message handler (NULL when none)

vars == <<pc, prices, period, multiplier, mant, ret, historical, technicals,
          sentiment, marketStructure, prediction, coin, outcome, volume, ret2,
          message, frames, error>>

\* JavaScript values that are not always numbers carry a tag: null, undefined,
\* a Number (a rational), a string, or an object with further fields
NULL == [t |-> "null"]
UNDEFINED == [t |-> "undefined"]
Num(q) == [t |-> "num", v |-> q]
Str(x) == [t |-> "str", v |-> x]

-----------------------------------------------------------------------------
(* Bounds of the explored inputs *)

MaxLen == 6        \* longest price series handed to calculateRSI / calculateBollingerBands
MaxPrice == 2      \* prices handed to calculateRSI range over 0..MaxPrice
MaxPeriod == 3     \* periods range over 1..MaxPeriod
SqrtBits == 10     \* significand bits kept by Math.sqrt when the arithmetic is exact
MantBits == 4      \* significand bits of the rounding arithmetic
MaxSRLen == 22     \* longest series handed to calculateSupportResistance
MaxSRPrice == 2    \* prices of those series range over 0..MaxSRPrice
MaxSpikes == 2     \* number of samples that leave the flat base price
MaxHist == 51      \* longest fetched history, next to the 100-sample uptrend
MaxBandLen == 3    \* longest series handed to calculateBollingerBands
MaxBandPrice == 7  \* prices of those series range over 0..MaxBandPrice
MaxWaveLen == 21   \* longest series handed to analyzeElliottWave / analyzeWyckoff

-----------------------------------------------------------------------------
(* Rational numbers *)

Abs(x) == IF x < 0 THEN -x ELSE x

RECURSIVE GCD(_, _)
GCD(a, b) == IF b = 0 THEN a ELSE GCD(b, a % b)

QNorm(n, d) ==
    LET nn == n
        dd == d
        g == GCD(Abs(nn), Abs(dd))
        s == IF dd < 0 THEN -1 ELSE 1
    IN  IF nn = 0 THEN <<0, 1>> ELSE <<s * (nn \div g), s * (dd \div g)>>

Q(x) == <<x, 1>>
QAdd(a, b) == LET x == a  y == b IN QNorm(x[1] * y[2] + y[1] * x[2], x[2] * y[2])
QSub(a, b) == LET x == a  y == b IN QNorm(x[1] * y[2] - y[1] * x[2], x[2] * y[2])
QMul(a, b) == LET x == a  y == b IN QNorm(x[1] * y[1], x[2] * y[2])
QDiv(a, b) == LET x == a  y == b IN QNorm(x[1] * y[2], x[2] * y[1])
QLt(a, b) == LET x == a  y == b IN x[1] * y[2] < y[1] * x[2]
QLe(a, b) == LET x == a  y == b IN x[1] * y[2] <= y[1] * x[2]
QAbs(a) == LET x == a IN <<Abs(x[1]), x[2]>>

RECURSIVE Pow2(_)
Pow2(k) == IF k = 0 THEN 1 ELSE 2 * Pow2(k - 1)

\* a / d rounded to the nearest integer, ties to even
RoundHalfEven(a, d) ==
    LET q == a \div d
        r == a % d
    IN  IF 2 * r < d THEN q
        ELSE IF 2 * r > d THEN q + 1
        ELSE IF q % 2 = 0 THEN q ELSE q + 1

\* the number of doublings that bring a / d up to 2^(P-1), and of halvings that
\* bring it below 2^P
RECURSIVE ShiftUp(_, _, _)
ShiftUp(a, d, P) == IF a >= Pow2(P - 1) * d THEN 0 ELSE 1 + ShiftUp(2 * a, d, P)

RECURSIVE ShiftDown(_, _, _)
ShiftDown(a, d, P) == IF a < Pow2(P) * d THEN 0 ELSE 1 + ShiftDown(a, 2 * d, P)

\* the positive rational a / d rounded to a significand of P bits
RoundPos(a, d, P) ==
    LET up == ShiftUp(a, d, P)
        down == ShiftDown(a, d, P)
    IN  IF up > 0 THEN QNorm(RoundHalfEven(a * Pow2(up), d), Pow2(up))
        ELSE Q(RoundHalfEven(a, d * Pow2(down)) * Pow2(down))

RoundBits(q, P) ==
    LET x == q
    IN  IF x[1] = 0 THEN Q(0)
        ELSE LET r == RoundPos(Abs(x[1]), x[2], P)
             IN  IF x[1] < 0 THEN <<-r[1], r[2]>> ELSE r

\* the result of one Number operation: rounded to the significand in effect
Fl(q) == LET x == q IN IF mant = 0 THEN x ELSE RoundBits(x, mant)

NAdd(a, b) == Fl(QAdd(a, b))
NSub(a, b) == Fl(QSub(a, b))
NMul(a, b) == Fl(QMul(a, b))
NDiv(a, b) == Fl(QDiv(a, b))

\* largest r with r * r <= x, searched in lo..hi
RECURSIVE ISqrtIn(_, _, _)
ISqrtIn(x, lo, hi) ==
    IF lo >= hi THEN lo
    ELSE LET mid == (lo + hi + 1) \div 2
         IN  IF mid * mid <= x THEN ISqrtIn(x, mid, hi) ELSE ISqrtIn(x, lo, mid - 1)

ISqrt(x) == ISqrtIn(x, 0, IF x < 46340 THEN x ELSE 46340)

\* sqrt(n / d) = sqrt(n * d) / d, bracketed with 4^k more resolution until the
\* root has more than P bits; an inexact root is placed strictly between its
\* two neighbours so that the final rounding sees on which side it lies
RECURSIVE SqrtScaled(_, _, _, _)
SqrtScaled(nd, d, k, P) ==
    IF nd * Pow2(2 * k) < Pow2(2 * (P + 1)) THEN SqrtScaled(nd, d, k + 1, P)
    ELSE LET x == nd * Pow2(2 * k)
             r == ISqrt(x)
         IN  IF r * r = x THEN QNorm(r, d * Pow2(k))
             ELSE QNorm(2 * r + 1, 2 * d * Pow2(k))

\* Math.sqrt of a non-negative Number
NSqrt(q) ==
    LET x == q
        P == IF mant = 0 THEN SqrtBits ELSE mant
        r == ISqrt(x[1] * x[2])
    IN  IF x[1] = 0 THEN Q(0)
        ELSE IF r * r = x[1] * x[2] THEN Fl(QNorm(r, x[2]))
        ELSE RoundBits(SqrtScaled(x[1] * x[2], x[2], 0, P), P)

-----------------------------------------------------------------------------
(* IEEE 754 binary64, the arithmetic of the composite score.  A natural number
   is a sequence of limbs, least significant first, without leading zero limbs;
   a Number is [s, m, e] standing for s * m * 2^e, with m of exactly Precision
   bits (or empty for zero).  The values of the score are far from the
   subnormal and the overflow range, which are not modelled. *)

Base == 16384
LimbBits == 14
Precision == 53

Limb(a, i) == IF i <= Len(a) THEN a[i] ELSE 0

RECURSIVE BTrim(_)
BTrim(a) == IF Len(a) > 0 /\ a[Len(a)] = 0 THEN BTrim(SubSeq(a, 1, Len(a) - 1)) ELSE a

RECURSIVE FromNat(_)
FromNat(n) == IF n = 0 THEN <<>> ELSE <<n % Base>> \o FromNat(n \div Base)

RECURSIVE BAddFrom(_, _, _, _, _)
BAddFrom(a, b, i, c, n) ==
    IF i > n THEN (IF c = 0 THEN <<>> ELSE <<c>>)
    ELSE LET t == Limb(a, i) + Limb(b, i) + c
         IN  <<t % Base>> \o BAddFrom(a, b, i + 1, t \div Base, n)

BAdd(a, b) ==
    LET x == a
        y == b
    IN  BTrim(BAddFrom(x, y, 1, 0, IF Len(x) > Len(y) THEN Len(x) ELSE Len(y)))

\* a - b for a >= b
RECURSIVE BSubFrom(_, _, _, _)
BSubFrom(a, b, i, c) ==
    IF i > Len(a) THEN <<>>
    ELSE LET t == a[i] - Limb(b, i) - c
         IN  IF t < 0 THEN <<t + Base>> \o BSubFrom(a, b, i + 1, 1)
             ELSE <<t>> \o BSubFrom(a, b, i + 1, 0)

BSub(a, b) == LET x == a  y == b IN BTrim(BSubFrom(x, y, 1, 0))

\* -1, 0 or 1 as a < b, a = b or a > b, compared from limb i downwards
RECURSIVE BCmpFrom(_, _, _)
BCmpFrom(a, b, i) ==
    IF i = 0 THEN 0
    ELSE IF a[i] < b[i] THEN -1
    ELSE IF a[i] > b[i] THEN 1
    ELSE BCmpFrom(a, b, i - 1)

BCmp(a, b) ==
    LET x == a
        y == b
    IN  IF Len(x) < Len(y) THEN -1
        ELSE IF Len(x) > Len(y) THEN 1
        ELSE BCmpFrom(x, y, Len(x))

\* a * x for one limb x
RECURSIVE BMulSmallFrom(_, _, _, _)
BMulSmallFrom(a, x, i, c) ==
    IF i > Len(a) THEN (IF c = 0 THEN <<>> ELSE <<c>>)
    ELSE LET t == a[i] * x + c
         IN  <<t % Base>> \o BMulSmallFrom(a, x, i + 1, t \div Base)

BMulSmall(a, x) == LET y == a IN BTrim(BMulSmallFrom(y, x, 1, 0))

ShiftLimbs(a, k) == IF a = <<>> THEN <<>> ELSE [i \in 1..k |-> 0] \o a

RECURSIVE BMulFrom(_, _, _)
BMulFrom(a, b, i) ==
    IF i > Len(b) THEN <<>>
    ELSE LET rest == BMulFrom(a, b, i + 1)
         IN  BAdd(ShiftLimbs(BMulSmall(a, b[i]), i - 1), rest)

BMul(a, b) == LET x == a  y == b IN BMulFrom(x, y, 1)

\* <<quotient limbs i..1 (least significant first), remainder>> of the long
\* division of a by one limb d, entered at limb i with remainder r
RECURSIVE BDivSmallFrom(_, _, _, _)
BDivSmallFrom(a, d, i, r) ==
    IF i = 0 THEN <<<<>>, r>>
    ELSE LET t == r * Base + a[i]
             low == BDivSmallFrom(a, d, i - 1, t % d)
         IN  <<Append(low[1], t \div d), low[2]>>

BDivSmall(a, d) ==
    LET x == a
        qr == BDivSmallFrom(x, d, Len(x), 0)
    IN  <<BTrim(qr[1]), qr[2]>>

\* a * 2^k and floor(a / 2^k)
BShl(a, k) == ShiftLimbs(BMulSmall(a, Pow2(k % LimbBits)), k \div LimbBits)

BShr(a, k) ==
    LET x == a
        drop == k \div LimbBits
    IN  IF drop >= Len(x) THEN <<>>
        ELSE BDivSmall(SubSeq(x, drop + 1, Len(x)), Pow2(k % LimbBits))[1]

RECURSIVE SmallBitLen(_)
SmallBitLen(n) == IF n = 0 THEN 0 ELSE 1 + SmallBitLen(n \div 2)

BitLen(a) == LET x == a IN IF x = <<>> THEN 0 ELSE LimbBits * (Len(x) - 1) + SmallBitLen(x[Len(x)])

BIsOdd(a) == a # <<>> /\ a[1] % 2 = 1

DZero == [s |-> 1, m |-> <<>>, e |-> 0]

\* floor(m / 2^k) rounded to nearest, ties to even, on the bits shifted out
RoundShift(m, k) ==
    LET x == m
        q == BShr(x, k)
        rem == BSub(x, BShl(q, k))
        half == BCmp(BShl(rem, 1), BShl(<<1>>, k))
    IN  IF half > 0 \/ (half = 0 /\ BIsOdd(q)) THEN BAdd(q, <<1>>) ELSE q

\* the Number nearest to s * m * 2^e
DRound(s, m, e) ==
    LET x == m
        len == BitLen(x)
    IN  IF x = <<>> THEN DZero
        ELSE IF len <= Precision
        THEN [s |-> s, m |-> BShl(x, Precision - len), e |-> e - (Precision - len)]
        ELSE LET k == len - Precision
                 q == RoundShift(x, k)
             IN  IF BitLen(q) > Precision
                 THEN [s |-> s, m |-> BShr(q, 1), e |-> e + k + 1]
                 ELSE [s |-> s, m |-> q, e |-> e + k]

DNeg(a) == LET x == a IN IF x.m = <<>> THEN x ELSE [x EXCEPT !.s = -x.s]
DAbs(a) == [a EXCEPT !.s = 1]

DMul(a, b) ==
    LET x == a
        y == b
    IN  IF x.m = <<>> \/ y.m = <<>> THEN DZero
        ELSE DRound(x.s * y.s, BMul(x.m, y.m), x.e + y.e)

DAdd(a, b) ==
    LET x == a
        y == b
        e == IF x.e < y.e THEN x.e ELSE y.e
        xm == BShl(x.m, x.e - e)
        ym == BShl(y.m, y.e - e)
        c == BCmp(xm, ym)
    IN  IF x.m = <<>> THEN y
        ELSE IF y.m = <<>> THEN x
        ELSE IF x.s = y.s THEN DRound(x.s, BAdd(xm, ym), e)
        ELSE IF c = 0 THEN DZero
        ELSE IF c > 0 THEN DRound(x.s, BSub(xm, ym), e)
        ELSE DRound(y.s, BSub(ym, xm), e)

DSub(a, b) == DAdd(a, DNeg(b))

DLt(a, b) == LET d == DSub(a, b) IN d.m # <<>> /\ d.s = -1
DLe(a, b) == ~DLt(b, a)

GuardBits == 70

\* the Number denoted by the decimal literal n / d (n >= 0, 0 < d < Base): the
\* quotient to GuardBits binary places, with a sticky bit for an inexact one
Literal(n, d) ==
    LET qr == BDivSmall(BShl(FromNat(n), GuardBits), d)
    IN  DRound(1, BAdd(BShl(qr[1], 1), IF qr[2] = 0 THEN <<>> ELSE <<1>>), -(GuardBits + 1))

\* the Number of a decimal written in the source
Lit(q) == LET x == q IN Literal(x[1], x[2])

-----------------------------------------------------------------------------
(* Array helpers *)

\* Array.prototype.slice(from, to) with JavaScript's 0-based, end-exclusive
\* indices (negative and overlong bounds clamped), on a 1-based sequence
Slice(s, from, to) ==
    LET n == Len(s)
        f0 == IF from < 0 THEN (IF n + from < 0 THEN 0 ELSE n + from)
              ELSE (IF from > n THEN n ELSE from)
        t0 == IF to < 0 THEN (IF n + to < 0 THEN 0 ELSE n + to)
              ELSE (IF to > n THEN n ELSE to)
    IN  IF f0 >= t0 THEN <<>> ELSE SubSeq(s, f0 + 1, t0)

\* seq.reduce((a, b) => a + b, 0): left to right, one rounded addition per
\* element.  SumRange runs the loop over s[lo..hi] from accumulator acc; the
\* range is split in two consecutive halves, which keeps the order of the
\* additions and the nesting of the evaluation shallow (the sum of the first
\* half, a rational with a positive denominator, is computed before the second
\* half starts)
RECURSIVE SumRange(_, _, _, _)
SumRange(s, lo, hi, acc) ==
    IF lo > hi THEN acc
    ELSE IF lo = hi THEN NAdd(acc, s[lo])
    ELSE LET mid == (lo + hi) \div 2
             left == SumRange(s, lo, mid, acc)
         IN  IF left[2] > 0 THEN SumRange(s, mid + 1, hi, left) ELSE left

SumNum(s) == LET arr == s IN SumRange(arr, 1, Len(arr), Q(0))

\* arr[arr.length - 1] of an array of Numbers: undefined on an empty array
LastOf(s) == LET arr == s IN IF Len(arr) = 0 THEN UNDEFINED ELSE Num(arr[Len(arr)])

ToNum(s) == [i \in 1..Len(s) |-> Q(s[i])]

-----------------------------------------------------------------------------
(* calculateRSI *)

IsGain(c) == QLt(Q(0), c)
IsLoss(c) == QLt(c, Q(0))

Changes(ps) ==
    LET arr == ps
    IN  [i \in 1..(IF Len(arr) = 0 THEN 0 ELSE Len(arr) - 1) |-> NSub(arr[i + 1], arr[i])]

\* RelativeStrength with the zero test put on the wrong average
RelativeStrengthWrongTest(avgGain, avgLoss) ==
    IF avgGain = Q(0) THEN Q(100) ELSE NDiv(avgGain, avgLoss)

\* relative strength of one window: the code substitutes 100 when avgLoss is 0
RelativeStrength(avgGain, avgLoss) ==
    IF avgLoss = Q(0) THEN Q(100) ELSE NDiv(avgGain, avgLoss)

\* body of the result loop for one window of `p` changes
RSIOfWindow(window, p) ==
    LET w == window
        gains == SelectSeq(w, IsGain)
        lossesRaw == SelectSeq(w, IsLoss)
        losses == [k \in 1..Len(lossesRaw) |-> QAbs(lossesRaw[k])]
        avgGain == IF Len(gains) > 0 THEN NDiv(SumNum(gains), Q(p)) ELSE Q(0)
        avgLoss == IF Len(losses) > 0 THEN NDiv(SumNum(losses), Q(p)) ELSE Q(0)
        rs == RelativeStrength(avgGain, avgLoss)
    IN  NSub(Q(100), NDiv(Q(100), NAdd(Q(1), rs)))

\* the window of changes read by loop index i (JavaScript index)
RSIWindow(changes, i, p) == Slice(changes, i - p, i)

calculateRSI(ps, p) ==
    LET arr == ps
        changes == Changes(arr)
        cnt == IF Len(changes) > p THEN Len(changes) - p ELSE 0
    IN  [k \in 1..cnt |-> RSIOfWindow(RSIWindow(changes, p + k - 1, p), p)]

-----------------------------------------------------------------------------
(* Specification of a call of calculateRSI on a bounded series *)

RECURSIVE SeqsUpTo(_, _)
SeqsUpTo(S, n) ==
    IF n = 0 THEN {<<>>}
    ELSE LET shorter == SeqsUpTo(S, n - 1)
         IN  shorter \cup {Append(s, x) : s \in {t \in shorter : Len(t) = n - 1}, x \in S}

Idle ==
    /\ historical = <<>>
    /\ technicals = NULL
    /\ sentiment = NULL
    /\ marketStructure = NULL
    /\ prediction = NULL
    /\ coin = NULL
    /\ outcome = "pending"
    /\ volume = <<>>
    /\ ret2 = NULL
    /\ message = NULL
    /\ frames = <<>>
    /\ error = NULL

InitRSI ==
    /\ pc = "call"
    /\ prices \in {ToNum(s) : s \in SeqsUpTo(0..MaxPrice, MaxLen)}
    /\ period \in 1..MaxPeriod
    /\ multiplier = Q(0)
    /\ mant = 0
    /\ ret = NULL
    /\ Idle

CallRSI ==
    /\ pc = "call"
    /\ pc' = "return"
    /\ ret' = calculateRSI(prices, period)
    /\ UNCHANGED <<prices, period, multiplier, mant, historical, technicals,
                   sentiment, marketStructure, prediction, coin, outcome, volume, ret2,
                   message, frames, error>>

NextRSI == CallRSI

SpecRSI == InitRSI /\ [][NextRSI]_vars

\* the window of price changes behind the k-th returned value
WindowOf(k) == RSIWindow(Changes(prices), period + k - 1, period)
NoLoss(w) == \A c \in 1..Len(w) : ~IsLoss(w[c])
NoGain(w) == \A c \in 1..Len(w) : ~IsGain(w[c])
InRange0to100(v) == QLe(Q(0), v) /\ QLe(v, Q(100))

\* C1: whenever a window of p price changes contains no loss, the RSI value
\* emitted for that window is exactly 100.
C1_NoLossIsExactly100 ==
    pc = "return" =>
        \A k \in 1..Len(ret) : NoLoss(WindowOf(k)) => ret[k] = Q(100)

\* C2: every value returned by calculateRSI lies in [0, 100], and a window with
\* no gain and at least one loss yields exactly 0.
C2_RSIBounded ==
    pc = "return" =>
        \A k \in 1..Len(ret) :
            /\ InRange0to100(ret[k])
            /\ (NoGain(WindowOf(k)) /\ ~NoLoss(WindowOf(k))) => ret[k] = Q(0)

\* a returned series holding a pure-loss window (value 0) and a mixed window
C2_Witness ==
    /\ pc = "return"
    /\ \E k \in 1..Len(ret) : NoGain(WindowOf(k)) /\ ~NoLoss(WindowOf(k)) /\ ret[k] = Q(0)
    /\ \E k \in 1..Len(ret) : ~NoGain(WindowOf(k)) /\ ~NoLoss(WindowOf(k))
                                /\ QLt(Q(0), ret[k]) /\ QLt(ret[k], Q(100))

\* the last p price changes of the series
LastChanges == LET changes == Changes(prices) IN Slice(changes, Len(changes) - period, Len(changes))

\* C18: for n prices calculateRSI returns n-p values (none when n <= p), one
\* for every window of p consecutive changes, and the last returned value is
\* computed from the last p changes.
C18_OneValuePerWindow ==
    pc = "return" =>
        /\ Len(ret) = (IF Len(prices) > period THEN Len(prices) - period ELSE 0)
        /\ Len(ret) > 0 => ret[Len(ret)] = RSIOfWindow(LastChanges, period)

-----------------------------------------------------------------------------
(* calculateSupportResistance (src/unnamed/part_000) *)

lookback == 10
MaxLevels == 10

\* prices[j] for a JavaScript index j
At(ps, j) == ps[j + 1]

\* the support loop with a non-strict comparison
RECURSIVE SupportScanNonStrict(_, _, _, _)
SupportScanNonStrict(ps, i, j, r) ==
    IF j # i /\ QLt(At(ps, j), At(ps, i)) THEN FALSE
    ELSE IF j = i + r THEN TRUE
    ELSE SupportScanNonStrict(ps, i, j + 1, r)

\* the inner loop of the support check from index j on: TRUE when the level is
\* pushed (j reached i + r without a break)
RECURSIVE SupportScan(_, _, _, _)
SupportScan(ps, i, j, r) ==
    IF j # i /\ QLe(At(ps, j), At(ps, i)) THEN FALSE
    ELSE IF j = i + r THEN TRUE
    ELSE SupportScan(ps, i, j + 1, r)

\* the resistance loop with a non-strict comparison
RECURSIVE ResistanceScanNonStrict(_, _, _, _)
ResistanceScanNonStrict(ps, i, j, r) ==
    IF j # i /\ QLt(At(ps, i), At(ps, j)) THEN FALSE
    ELSE IF j = i + r THEN TRUE
    ELSE ResistanceScanNonStrict(ps, i, j + 1, r)

\* the inner loop of the resistance check
RECURSIVE ResistanceScan(_, _, _, _)
ResistanceScan(ps, i, j, r) ==
    IF j # i /\ QLe(At(ps, i), At(ps, j)) THEN FALSE
    ELSE IF j = i + r THEN TRUE
    ELSE ResistanceScan(ps, i, j + 1, r)

Level(kind, ps, i) == [type |-> kind, price |-> At(ps, i), strength |-> "medium", index |-> i]

\* the body of the outer loop at index i; `index` records the loop index of a
\* pushed level (the code's levels carry type, price and strength only)
LevelsAt(ps, i, r) ==
    (IF SupportScan(ps, i, i - r, r) THEN <<Level("support", ps, i)>> ELSE <<>>)
    \o (IF ResistanceScan(ps, i, i - r, r) THEN <<Level("resistance", ps, i)>> ELSE <<>>)

\* the outer loop over the indices lo..hi, in order
RECURSIVE DetectRange(_, _, _, _)
DetectRange(ps, lo, hi, r) ==
    IF lo > hi THEN <<>>
    ELSE IF lo = hi THEN LevelsAt(ps, lo, r)
    ELSE LET mid == (lo + hi) \div 2
         IN  DetectRange(ps, lo, mid, r) \o DetectRange(ps, mid + 1, hi, r)

\* for (let i = lookback; i < prices.length - lookback; i++)
DetectLevels(ps, r) == LET arr == ps IN DetectRange(arr, r, Len(arr) - r - 1, r)

StripIndex(ls) ==
    [k \in 1..Len(ls) |-> [type |-> ls[k].type, price |-> ls[k].price, strength |-> ls[k].strength]]

calculateSupportResistance(ps) ==
    LET levels == DetectLevels(ps, lookback)
    IN  Slice(StripIndex(levels), -MaxLevels, Len(levels))

-----------------------------------------------------------------------------
(* calculateSupportResistance (src/mcp-gateway.js), with the lookback radius
   as a parameter *)

MaxOutliers == 2

\* the body of the outer loop at index i: the window is prices.slice(i - r, i + r)
GatewayLevelsAt(ps, i, r) ==
    LET subset == Slice(ps, i - r, i + r)
        current == At(ps, i)
        lower == Cardinality({k \in 1..Len(subset) : QLt(subset[k], current)})
        higher == Cardinality({k \in 1..Len(subset) : QLt(current, subset[k])})
    IN  (IF lower <= MaxOutliers THEN <<Level("support", ps, i)>> ELSE <<>>)
        \o (IF higher <= MaxOutliers THEN <<Level("resistance", ps, i)>> ELSE <<>>)

RECURSIVE GatewayDetectRange(_, _, _, _)
GatewayDetectRange(ps, lo, hi, r) ==
    IF lo > hi THEN <<>>
    ELSE IF lo = hi THEN GatewayLevelsAt(ps, lo, r)
    ELSE LET mid == (lo + hi) \div 2
         IN  GatewayDetectRange(ps, lo, mid, r) \o GatewayDetectRange(ps, mid + 1, hi, r)

GatewayDetectLevels(ps, r) == LET arr == ps IN GatewayDetectRange(arr, r, Len(arr) - r - 1, r)

GatewaySupportResistance(ps, r) ==
    LET levels == GatewayDetectLevels(ps, r)
    IN  Slice(StripIndex(levels), -MaxLevels, Len(levels))

-----------------------------------------------------------------------------
(* Specification of a call of calculateSupportResistance *)

\* the flat series of n samples with at most k samples moved to another price
RECURSIVE Spiked(_, _)
Spiked(n, k) ==
    IF k = 0 THEN {[i \in 1..n |-> 1]}
    ELSE LET fewer == Spiked(n, k - 1)
         IN  fewer \cup {[s EXCEPT ![a] = v] : s \in fewer, a \in 1..n, v \in 0..MaxSRPrice}

SRLengths == {0, 2 * lookback} \cup ((2 * lookback + 1)..MaxSRLen)

InitSR ==
    /\ pc = "call"
    /\ \E n \in SRLengths : prices \in {ToNum(s) : s \in Spiked(n, MaxSpikes)}
    /\ period = 0
    /\ multiplier = Q(0)
    /\ mant = 0
    /\ ret = NULL
    /\ Idle

CallSupportResistance ==
    /\ pc = "call"
    /\ pc' = "return"
    /\ ret' = calculateSupportResistance(prices)
    /\ UNCHANGED <<prices, period, multiplier, mant, historical, technicals,
                   sentiment, marketStructure, prediction, coin, outcome, volume, ret2,
                   message, frames, error>>

\* the gateway's variant called on the same series with the same radius
CallGatewaySupportResistance ==
    /\ pc = "return"
    /\ pc' = "returnBoth"
    /\ ret2' = GatewaySupportResistance(prices, lookback)
    /\ UNCHANGED <<prices, period, multiplier, mant, ret, historical, technicals,
                   sentiment, marketStructure, prediction, coin, outcome, volume,
                   message, frames, error>>

NextSR ==
    \/ CallSupportResistance
    \/ CallGatewaySupportResistance

SpecSR == InitSR /\ [][NextSR]_vars

\* the levels found before truncation, and the indices a window covers
Detected == DetectLevels(prices, lookback)
ReportedIn(d, kind, i) == \E k \in 1..Len(d) : d[k].type = kind /\ d[k].index = i
IsCentre(i) == lookback <= i /\ i < Len(prices) - lookback
Others(i) == ((i - lookback)..(i + lookback)) \ {i}
StrictMin(i) == \A j \in Others(i) : QLt(At(prices, i), At(prices, j))
StrictMax(i) == \A j \in Others(i) : QLt(At(prices, j), At(prices, i))
WindowMin(i) == \A j \in Others(i) : QLe(At(prices, i), At(prices, j))
WindowMax(i) == \A j \in Others(i) : QLe(At(prices, j), At(prices, i))
TiedWith(i) == {j \in Others(i) : At(prices, j) = At(prices, i)}

\* C6: index i is reported as a support level iff r <= i < n-r and prices[i] is
\* strictly less than every other price in [i-r, i+r], and as a resistance
\* level iff it is strictly greater than every other price in that window; what
\* is returned is the tail of at most 10 of those levels.
C6_StrictExtrema ==
    pc = "return" =>
        LET d == Detected
        IN  /\ \A i \in 0..(Len(prices) - 1) :
                  /\ ReportedIn(d, "support", i) <=> (IsCentre(i) /\ StrictMin(i))
                  /\ ReportedIn(d, "resistance", i) <=> (IsCentre(i) /\ StrictMax(i))
            /\ ret = Slice(StripIndex(d), -MaxLevels, Len(d))

\* a returned list holding both a support and a resistance level
C6_Witness ==
    /\ pc = "return"
    /\ \E k \in 1..Len(ret) : ret[k].type = "support"
    /\ \E k \in 1..Len(ret) : ret[k].type = "resistance"

\* C7 (as claimed): when several indices of one window tie for the extreme
\* price, the first tied index in scan order is reported for that extreme.
C7_FirstTiedQualifies ==
    pc = "return" =>
        LET d == Detected
        IN  \A i \in 0..(Len(prices) - 1) :
                /\ (IsCentre(i) /\ WindowMin(i) /\ TiedWith(i) # {}
                      /\ \A j \in TiedWith(i) : j > i) => ReportedIn(d, "support", i)
                /\ (IsCentre(i) /\ WindowMax(i) /\ TiedWith(i) # {}
                      /\ \A j \in TiedWith(i) : j > i) => ReportedIn(d, "resistance", i)

\* C7 (amended): an index whose price ties with another index of its window
\* for the window's extreme is not reported for that extreme, whether it is
\* the first tied index or a later one.
C7_TiedNeverQualifies ==
    pc = "return" =>
        LET d == Detected
        IN  \A i \in 0..(Len(prices) - 1) :
                /\ (IsCentre(i) /\ WindowMin(i) /\ TiedWith(i) # {}) => ~ReportedIn(d, "support", i)
                /\ (IsCentre(i) /\ WindowMax(i) /\ TiedWith(i) # {}) => ~ReportedIn(d, "resistance", i)

\* a call on a series where two centres tie for the minimum of one window, the
\* earlier one being the first tied index, and nothing is reported
C7_Witness ==
    /\ pc = "return"
    /\ \E i \in 0..(Len(prices) - 1) :
          /\ IsCentre(i) /\ WindowMin(i) /\ ~WindowMax(i)
          /\ \E j \in TiedWith(i) : IsCentre(j)
          /\ \A j \in TiedWith(i) : j > i
    /\ ret = <<>>

BothKindsAt(d, i) == ReportedIn(d, "support", i) /\ ReportedIn(d, "resistance", i)

\* C19: run with the same lookback radius on the same series, the two
\* calculateSupportResistance variants return the same levels, of the same
\* kinds, in the same order, and neither reports one index as both support and
\* resistance.
C19_VariantsAgree ==
    pc = "returnBoth" =>
        LET d == Detected
            g == GatewayDetectLevels(prices, lookback)
        IN  /\ ret2 = ret
            /\ g = d
            /\ \A i \in 0..(Len(prices) - 1) : ~BothKindsAt(d, i) /\ ~BothKindsAt(g, i)

-----------------------------------------------------------------------------
(* calculateSMA, calculateBollingerBands *)

\* calculateSMA with the loop started one index late
calculateSMALate(ps, p) ==
    LET arr == ps
        cnt == IF Len(arr) > p THEN Len(arr) - p ELSE 0
    IN  [k \in 1..cnt |-> NDiv(SumNum(SubSeq(arr, k + 1, k + p)), Q(p))]

\* for (let i = period - 1; i < prices.length; i++): one mean per window
calculateSMA(ps, p) ==
    LET arr == ps
        cnt == IF Len(arr) >= p THEN Len(arr) - p + 1 ELSE 0
    IN  [k \in 1..cnt |-> NDiv(SumNum(SubSeq(arr, k, k + p - 1)), Q(p))]

\* subset.reduce((sum, price) => sum + Math.pow(price - mean, 2), 0), run over
\* subset[lo..hi] from accumulator acc
RECURSIVE SumSquaresRange(_, _, _, _, _)
SumSquaresRange(subset, mean, lo, hi, acc) ==
    IF lo > hi THEN acc
    ELSE IF lo = hi
         THEN LET dev == NSub(subset[lo], mean) IN NAdd(acc, NMul(dev, dev))
    ELSE LET mid == (lo + hi) \div 2
             left == SumSquaresRange(subset, mean, lo, mid, acc)
         IN  IF left[2] > 0 THEN SumSquaresRange(subset, mean, mid + 1, hi, left) ELSE left

SumSquares(subset, mean) ==
    LET arr == subset
        m == mean
    IN  SumSquaresRange(arr, m, 1, Len(arr), Q(0))

\* one pushed band: a window, its mean taken from the SMA array
BandOf(subset, sma_i, p, mult) ==
    LET mean == sma_i
        variance == NDiv(SumSquares(subset, mean), Q(p))
        stdDev == NSqrt(variance)
    IN  [upper |-> NAdd(mean, NMul(stdDev, mult)),
         middle |-> mean,
         lower |-> NSub(mean, NMul(stdDev, mult))]

calculateBollingerBands(ps, p, mult) ==
    LET arr == ps
        sma == calculateSMA(arr, p)
    IN  [k \in 1..Len(sma) |-> BandOf(SubSeq(arr, k, k + p - 1), sma[k], p, mult)]

-----------------------------------------------------------------------------
(* calculateSimpleTechnicals *)

MinSamples == 20
SmaShort == 20
SmaLong == 50
RsiPeriod == 14
BbPeriod == 20
BbMultiplier == 2

NaN == [t |-> "NaN"]
Infinity(sign) == [t |-> "Infinity", sign |-> sign]
\* a Number whose value the model does not compute
ANumber == [t |-> "number"]

\* prices.map(p => p[1])
ClosePrices(hist) == [i \in 1..Len(hist) |-> Q(hist[i][2])]

\* ((last - previous) / previous) * 100, with JavaScript's division by zero
PriceChange24h(cp) ==
    LET arr == cp
        last == arr[Len(arr)]
        prev == arr[Len(arr) - 1]
        diff == NSub(last, prev)
    IN  IF prev = Q(0)
        THEN (IF diff = Q(0) THEN NaN ELSE Infinity(IF diff[1] > 0 THEN 1 ELSE -1))
        ELSE Num(NMul(NDiv(diff, prev), Q(100)))

\* arr[arr.length - 1] of the band array
LastBand(bb) ==
    LET arr == bb
        band == arr[Len(arr)]
    IN  IF Len(arr) = 0 THEN UNDEFINED
        ELSE [t |-> "obj", upper |-> band.upper, middle |-> band.middle, lower |-> band.lower]

\* the volatility field is the standard deviation of the returns, a Number
\* (possibly NaN) that no property below reads; its value is left abstract
calculateSimpleTechnicals(hist) ==
    LET closePrices == ClosePrices(hist)
    IN  IF Len(closePrices) < MinSamples THEN NULL
        ELSE [t |-> "obj",
              sma_20 |-> LastOf(calculateSMA(closePrices, SmaShort)),
              sma_50 |-> LastOf(calculateSMA(closePrices, SmaLong)),
              rsi |-> LastOf(calculateRSI(closePrices, RsiPeriod)),
              bollinger_bands |-> LastBand(calculateBollingerBands(closePrices, BbPeriod, Q(BbMultiplier))),
              support_resistance |-> calculateSupportResistance(closePrices),
              price_change_24h |-> PriceChange24h(closePrices),
              volatility |-> ANumber]

-----------------------------------------------------------------------------
(* marketStructureAnalysis, getNewsSentiment, generateGodPrediction *)

\* 1000000000 USD in the unit of `coin`
InstitutionalCap == 10

marketStructureAnalysis(c) ==
    [liquidityScore |-> NDiv(Q(c.total_volume), Q(c.market_cap)),
     institutionalInterest |-> IF c.market_cap > InstitutionalCap THEN "high" ELSE "medium"]

\* the sentiment object built around one draw of Math.random
NewsSentiment(score) ==
    [overall_sentiment |-> IF QLt(<<3, 10>>, score) THEN "bullish"
                           ELSE IF QLt(score, <<-3, 10>>) THEN "bearish" ELSE "neutral",
     score |-> score]

\* JavaScript truthiness of a tagged value
Truthy(x) ==
    /\ x.t \notin {"null", "undefined", "NaN"}
    /\ x.t = "num" => x.v # Q(0)
    /\ x.t = "str" => x.v # ""

\* the technical score with the two lean values exchanged
TechnicalScoreSwapped(tech) ==
    IF Truthy(tech) /\ Truthy(tech.rsi)
    THEN (IF QLt(tech.rsi.v, Q(30)) THEN <<1, 5>>
          ELSE IF QLt(Q(70), tech.rsi.v) THEN <<4, 5>> ELSE <<1, 2>>)
    ELSE <<1, 2>>

\* let technicalScore = 0.5; if (technicals && technicals.rsi) { ... }
TechnicalScore(tech) ==
    IF Truthy(tech) /\ Truthy(tech.rsi)
    THEN (IF QLt(tech.rsi.v, Q(30)) THEN <<4, 5>>
          ELSE IF QLt(Q(70), tech.rsi.v) THEN <<1, 5>> ELSE <<1, 2>>)
    ELSE <<1, 2>>

FundamentalScore(ms) == IF QLt(<<1, 10>>, ms.liquidityScore) THEN <<7, 10>> ELSE <<2, 5>>
SentimentScore(sent) == IF QLt(Q(0), sent.score) THEN <<7, 10>> ELSE <<3, 10>>
\* the structure score with a larger value for high institutional interest
StructureScoreRaised(ms) == IF ms.institutionalInterest = "high" THEN <<9, 10>> ELSE <<1, 2>>

StructureScore(ms) == IF ms.institutionalInterest = "high" THEN <<4, 5>> ELSE <<1, 2>>

\* technicalScore * weights.technical + ... + structureScore * weights.market_structure,
\* in binary64, left to right
WeightedScore(t, f, s, st) ==
    DAdd(DAdd(DAdd(DMul(Lit(t), Lit(<<2, 5>>)),
                   DMul(Lit(f), Lit(<<3, 10>>))),
              DMul(Lit(s), Lit(<<1, 5>>))),
         DMul(Lit(st), Lit(<<1, 10>>)))

FinalScore(tech, sent, ms) ==
    WeightedScore(TechnicalScore(tech), FundamentalScore(ms), SentimentScore(sent),
                  StructureScore(ms))

\* technicals?.bollinger_bands?.<field> || 'N/A'
PriceTarget(tech, field) ==
    IF Truthy(tech) /\ Truthy(tech.bollinger_bands) /\ tech.bollinger_bands[field] # Q(0)
    THEN Num(tech.bollinger_bands[field])
    ELSE Str("N/A")

Direction(finalScore) ==
    IF DLt(Lit(<<3, 5>>), finalScore) THEN "BULLISH"
    ELSE IF DLt(finalScore, Lit(<<2, 5>>)) THEN "BEARISH" ELSE "NEUTRAL"

\* the confidence without the factor 200
ConfidenceUnscaled(finalScore) == DAbs(DSub(finalScore, Lit(<<1, 2>>)))

Confidence(finalScore) == DMul(DAbs(DSub(finalScore, Lit(<<1, 2>>))), Lit(Q(200)))

RiskLevel(finalScore) ==
    IF DLt(Lit(<<7, 10>>), finalScore) \/ DLt(finalScore, Lit(<<3, 10>>))
    THEN "HIGH" ELSE "MEDIUM"

generateGodPrediction(tech, fundamentals, sent, ms) ==
    LET finalScore == FinalScore(tech, sent, ms)
    IN  [direction |-> Direction(finalScore),
         confidence |-> Confidence(finalScore),
         timeframe |-> "24h-7d",
         price_targets |-> [support |-> PriceTarget(tech, "lower"),
                            resistance |-> PriceTarget(tech, "upper")],
         risk_level |-> RiskLevel(finalScore)]

-----------------------------------------------------------------------------
(* The god_analysis tool call of POST /mcp/crypto *)

Shapes == {"up", "down", "flat", "zero", "zigzag", "negative"}

\* the price of sample i (1-based) of an n-sample history of the given shape
PriceAt(shape, n, i) ==
    CASE shape = "up" -> 100 + (i - 1)
      [] shape = "down" -> n - i + 1
      [] shape = "flat" -> 5
      [] shape = "zero" -> 0
      [] shape = "zigzag" -> IF i % 2 = 1 THEN 1 ELSE 3
      [] shape = "negative" -> IF i = n THEN -1 ELSE 5

History(shape, n) == [i \in 1..n |-> <<i, PriceAt(shape, n, i)>>]

Uptrend100 == History("up", 100)

Histories == {History(sh, n) : sh \in Shapes, n \in 0..MaxHist} \cup {Uptrend100}

MarketCaps == {5, 20}
Volumes == {1, 3}
RandomScores == {<<-1, 2>>, Q(0), <<1, 2>>}

Init ==
    /\ pc = "getMarketData"
    /\ prices = <<>>
    /\ period = 0
    /\ multiplier = Q(0)
    /\ mant = 0
    /\ ret = NULL
    /\ Idle

\* await CryptoGodEngine.getMarketData(symbol): the three fetches succeed
GetMarketData ==
    /\ pc = "getMarketData"
    /\ \E h \in Histories, cap \in MarketCaps, vol \in Volumes :
          /\ historical' = h
          /\ coin' = [market_cap |-> cap, total_volume |-> vol]
    /\ pc' = "calculateSimpleTechnicals"
    /\ UNCHANGED <<prices, period, multiplier, mant, ret, technicals, sentiment,
                   marketStructure, prediction, outcome, volume, ret2,
                   message, frames, error>>

\* a fetch fails: getMarketData throws and the route answers with the error
GetMarketDataFails ==
    /\ pc = "getMarketData"
    /\ pc' = "done"
    /\ outcome' = "error"
    /\ UNCHANGED <<prices, period, multiplier, mant, ret, historical, technicals,
                   sentiment, marketStructure, prediction, coin, volume, ret2,
                   message, frames, error>>

CalculateSimpleTechnicals ==
    /\ pc = "calculateSimpleTechnicals"
    /\ technicals' = calculateSimpleTechnicals(historical)
    /\ pc' = "getNewsSentiment"
    /\ UNCHANGED <<prices, period, multiplier, mant, ret, historical, sentiment,
                   marketStructure, prediction, coin, outcome, volume, ret2,
                   message, frames, error>>

GetNewsSentiment ==
    /\ pc = "getNewsSentiment"
    /\ \E score \in RandomScores : sentiment' = NewsSentiment(score)
    /\ pc' = "marketStructureAnalysis"
    /\ UNCHANGED <<prices, period, multiplier, mant, ret, historical, technicals,
                   marketStructure, prediction, coin, outcome, volume, ret2,
                   message, frames, error>>

MarketStructureAnalysis ==
    /\ pc = "marketStructureAnalysis"
    /\ marketStructure' = marketStructureAnalysis(coin)
    /\ pc' = "generateGodPrediction"
    /\ UNCHANGED <<prices, period, multiplier, mant, ret, historical, technicals,
                   sentiment, prediction, coin, outcome, volume, ret2,
                   message, frames, error>>

\* generateGodPrediction, then res.json({ jsonrpc, id, result })
GenerateGodPrediction ==
    /\ pc = "generateGodPrediction"
    /\ prediction' = generateGodPrediction(technicals, coin, sentiment, marketStructure)
    /\ outcome' = "returned"
    /\ pc' = "done"
    /\ UNCHANGED <<prices, period, multiplier, mant, ret, historical, technicals,
                   sentiment, marketStructure, coin, volume, ret2,
                   message, frames, error>>

Next ==
    \/ GetMarketData
    \/ GetMarketDataFails
    \/ CalculateSimpleTechnicals
    \/ GetNewsSentiment
    \/ MarketStructureAnalysis
    \/ GenerateGodPrediction

Spec == Init /\ [][Next]_vars

\* the call ran to its answer on fetched market data
Answered == pc = "done" /\ coin # NULL
HasTechnicals == technicals.t = "obj"
LatestRSI == technicals.rsi
NumSamples == Len(historical)

\* C3: for every available latest RSI value v in [0, 100], v = 0 included, the
\* technical sub-score is 0.8 when v < 30, 0.2 when v > 70 and 0.5 otherwise.
C3_TechnicalScoreByThreshold ==
    (Answered /\ HasTechnicals /\ LatestRSI.t = "num") =>
        TechnicalScore(technicals) =
            (IF QLt(LatestRSI.v, Q(30)) THEN <<4, 5>>
             ELSE IF QLt(Q(70), LatestRSI.v) THEN <<1, 5>> ELSE <<1, 2>>)

\* the inputs of the end-to-end case: the 100-sample series price[i] = 100 + i,
\* a positive sentiment score, liquidityScore > 0.1, institutionalInterest high
UptrendCase ==
    /\ Answered
    /\ historical = Uptrend100
    /\ QLt(Q(0), sentiment.score)
    /\ QLt(<<1, 10>>, marketStructure.liquidityScore)
    /\ marketStructure.institutionalInterest = "high"

\* C4 (as claimed): the prediction for the 100-sample uptrend with positive
\* sentiment and market-structure inputs has direction BULLISH.
C4_UptrendBullish == UptrendCase => prediction.direction = "BULLISH"

\* C4 (amended): the prediction for the 100-sample uptrend with positive
\* sentiment and market-structure inputs has direction NEUTRAL: the latest
\* RSI is above 70, so the technical sub-score is 0.2 and the final score 0.51.
C4_UptrendNeutral ==
    UptrendCase =>
        /\ prediction.direction = "NEUTRAL"
        /\ FinalScore(technicals, sentiment, marketStructure) = Lit(<<51, 100>>)

C4_Witness ==
    /\ UptrendCase
    /\ outcome = "returned"
    /\ LatestRSI.t = "num" /\ QLt(Q(70), LatestRSI.v)

BandAvailable == HasTechnicals /\ technicals.bollinger_bands.t = "obj"
IsAbsent(x) == x.t \in {"null", "undefined"}

\* C5: price_targets.support equals the latest Bollinger lower bound and
\* price_targets.resistance the latest upper bound whenever a band is available
\* (for every numeric bound, 0 included), and both are reported as absent,
\* never as a placeholder string, when no band is available.
C5_PriceTargetsFromBands ==
    Answered =>
        LET targets == prediction.price_targets
        IN  IF BandAvailable
            THEN /\ targets.support.t = "num"
                 /\ targets.support.v = technicals.bollinger_bands.lower
                 /\ targets.resistance.t = "num"
                 /\ targets.resistance.v = technicals.bollinger_bands.upper
            ELSE IsAbsent(targets.support) /\ IsAbsent(targets.resistance)

\* the samples each indicator needs before its function returns a value
MinWindow(field) ==
    CASE field = "sma_20" -> SmaShort
      [] field = "sma_50" -> SmaLong
      [] field = "rsi" -> RsiPeriod + 2
      [] field = "bollinger_bands" -> BbPeriod

FieldAbsent(field) == ~HasTechnicals \/ IsAbsent(technicals[field])

\* C8: an indicator's field of the report is absent iff the series has fewer
\* samples than that indicator's own minimum window, and no series length
\* makes calculateSimpleTechnicals or generateGodPrediction raise.
C8_AbsentIffTooShort ==
    Answered =>
        /\ \A field \in {"sma_20", "sma_50", "rsi", "bollinger_bands"} :
              FieldAbsent(field) <=> NumSamples < MinWindow(field)
        /\ outcome = "returned"

HasNegativePrice == \E i \in 1..Len(historical) : historical[i][2] < 0

\* C9: an analysis call whose price series contains a negative price, or is
\* empty, fails as a whole with an error outcome.
C9_InvalidInputFails ==
    (Answered /\ (NumSamples = 0 \/ HasNegativePrice)) => outcome = "error"

-----------------------------------------------------------------------------
(* Specification of a call of calculateBollingerBands, in exact arithmetic and
   in arithmetic rounded to MantBits significant bits *)

InitBands ==
    /\ pc = "call"
    /\ prices \in {ToNum(s) : s \in SeqsUpTo(0..MaxBandPrice, MaxBandLen)}
    /\ period \in 1..MaxPeriod
    /\ multiplier \in {Q(0), Q(BbMultiplier)}
    /\ mant \in {0, MantBits}
    /\ ret = NULL
    /\ Idle

CallBollingerBands ==
    /\ pc = "call"
    /\ pc' = "return"
    /\ ret' = calculateBollingerBands(prices, period, multiplier)
    /\ UNCHANGED <<prices, period, multiplier, mant, historical, technicals,
                   sentiment, marketStructure, prediction, coin, outcome, volume, ret2,
                   message, frames, error>>

NextBands == CallBollingerBands

SpecBands == InitBands /\ [][NextBands]_vars

\* the window of prices behind the k-th band
BandWindow(k) == SubSeq(prices, k, k + period - 1)
ConstantWindow(k) == \A i \in k..(k + period - 1) : prices[i] = prices[k]

\* C10: for every window position, lower <= middle <= upper, and
\* lower = middle = upper when all prices of the window are equal.
C10_BandsOrdered ==
    pc = "return" =>
        \A k \in 1..Len(ret) :
            /\ QLe(ret[k].lower, ret[k].middle)
            /\ QLe(ret[k].middle, ret[k].upper)
            /\ ConstantWindow(k) => (ret[k].lower = ret[k].middle /\ ret[k].middle = ret[k].upper)

-----------------------------------------------------------------------------
(* Specification of a call of calculateSMA or of calculateBollingerBands on
   the same arguments *)

CallSMA ==
    /\ pc = "call"
    /\ pc' = "returnSMA"
    /\ ret' = calculateSMA(prices, period)
    /\ UNCHANGED <<prices, period, multiplier, mant, historical, technicals,
                   sentiment, marketStructure, prediction, coin, outcome, volume, ret2,
                   message, frames, error>>

NextSMA ==
    \/ CallSMA
    \/ CallBollingerBands

\* the arguments of InitBands, with the default multiplier
InitSMA == InitBands /\ multiplier = Q(BbMultiplier)

SpecSMA == InitSMA /\ [][NextSMA]_vars

\* the exact (unrounded) sum of s[lo..hi]
RECURSIVE ExactSum(_, _, _)
ExactSum(s, lo, hi) == IF lo > hi THEN Q(0) ELSE QAdd(ExactSum(s, lo, hi - 1), s[hi])

ExactMean(k) == QDiv(ExactSum(prices, k, k + period - 1), Q(period))

\* the sliding-sum reference: the first window is summed, every later window
\* adds the entering price and subtracts the leaving one
RECURSIVE SlidingSum(_)
SlidingSum(k) ==
    IF k = 1 THEN SumNum(SubSeq(prices, 1, period))
    ELSE NSub(NAdd(SlidingSum(k - 1), prices[k + period - 1]), prices[k - 1])

SlidingMean(k) == NDiv(SlidingSum(k), Q(period))

ExpectedCount == IF period <= Len(prices) THEN Len(prices) - period + 1 ELSE 0

\* (1 + 2^-mant)^w - 1: the relative error w roundings can add up to
RECURSIVE Compound(_)
Compound(w) == IF w = 0 THEN Q(1) ELSE QMul(Compound(w - 1), QAdd(Q(1), <<1, Pow2(mant)>>))

Tolerance == QSub(Compound(period), Q(1))

WithinTolerance(v, exact) == QLe(QAbs(QSub(v, exact)), QMul(Tolerance, exact))

BandsFollowSMA ==
    pc = "return" =>
        LET sma == calculateSMA(prices, period)
        IN  /\ Len(ret) = ExpectedCount
            /\ Len(ret) = Len(sma)
            /\ \A k \in 1..Len(ret) : ret[k].middle = sma[k]

\* C11 (as claimed): calculateSMA returns n-w+1 values (none when w > n), the
\* k-th value equals the mean of prices[k..k+w-1] and agrees with the
\* sliding-sum reference; calculateBollingerBands returns as many entries,
\* with middle equal to the SMA value.
C11_SMAEqualsMean ==
    /\ pc = "returnSMA" =>
          /\ Len(ret) = ExpectedCount
          /\ \A k \in 1..Len(ret) : ret[k] = ExactMean(k) /\ ret[k] = SlidingMean(k)
    /\ BandsFollowSMA

\* C11 (amended): calculateSMA returns n-w+1 values (none when w > n); in
\* exact arithmetic the k-th value is the mean of prices[k..k+w-1] and agrees
\* with the sliding-sum reference, and in rounded arithmetic it lies within the
\* relative error (1 + 2^-m)^w - 1 of that mean; calculateBollingerBands
\* returns as many entries, with middle equal to the SMA value.
C11_SMAWithinRounding ==
    /\ pc = "returnSMA" =>
          /\ Len(ret) = ExpectedCount
          /\ \A k \in 1..Len(ret) :
                IF mant = 0
                THEN ret[k] = ExactMean(k) /\ ret[k] = SlidingMean(k)
                ELSE WithinTolerance(ret[k], ExactMean(k))
    /\ BandsFollowSMA

\* a rounded call that returns a mean off the exact mean of its window
C11_Witness ==
    /\ pc = "returnSMA"
    /\ mant = MantBits
    /\ \E k \in 1..Len(ret) : ret[k] # ExactMean(k) /\ WithinTolerance(ret[k], ExactMean(k))

-----------------------------------------------------------------------------
(* Specification of a call of generateGodPrediction on arbitrary arguments *)

RsiSamples == {Q(0), Q(20), Q(30), Q(50), Q(70), Q(80), Q(100)}
LiquiditySamples == {<<1, 20>>, <<1, 10>>, <<3, 20>>, <<3, 5>>}

SampleBand == [t |-> "obj", upper |-> Q(12), middle |-> Q(10), lower |-> Q(8)]

\* the technicals argument: null, or a report whose rsi and bollinger_bands may
\* be undefined
TechnicalsArgs ==
    {NULL} \cup
    {[t |-> "obj", rsi |-> r, bollinger_bands |-> b] :
        r \in {UNDEFINED} \cup {Num(v) : v \in RsiSamples},
        b \in {UNDEFINED, SampleBand}}

MarketStructureArgs ==
    {[liquidityScore |-> l, institutionalInterest |-> i] :
        l \in LiquiditySamples, i \in {"high", "medium"}}

InitScore ==
    /\ pc = "call"
    /\ prices = <<>>
    /\ period = 0
    /\ multiplier = Q(0)
    /\ mant = 0
    /\ ret = NULL
    /\ historical = <<>>
    /\ technicals \in TechnicalsArgs
    /\ sentiment \in {NewsSentiment(score) : score \in RandomScores}
    /\ marketStructure \in MarketStructureArgs
    /\ prediction = NULL
    /\ coin = NULL
    /\ outcome = "pending"
    /\ volume = <<>>
    /\ ret2 = NULL
    /\ message = NULL
    /\ frames = <<>>
    /\ error = NULL

CallGenerateGodPrediction ==
    /\ pc = "call"
    /\ pc' = "return"
    /\ prediction' = generateGodPrediction(technicals, coin, sentiment, marketStructure)
    /\ UNCHANGED <<prices, period, multiplier, mant, ret, historical, technicals,
                   sentiment, marketStructure, coin, outcome, volume, ret2,
                   message, frames, error>>

NextScore == CallGenerateGodPrediction

SpecScore == InitScore /\ [][NextScore]_vars

\* the sub-scores and the final score of the call, and the weighted sum of the
\* sub-scores as a real number
Technical == TechnicalScore(technicals)
Fundamental == FundamentalScore(marketStructure)
Sentiment == SentimentScore(sentiment)
Structure == StructureScore(marketStructure)
Score == FinalScore(technicals, sentiment, marketStructure)
RealScore ==
    QAdd(QAdd(QAdd(QMul(Technical, <<2, 5>>), QMul(Fundamental, <<3, 10>>)),
              QMul(Sentiment, <<1, 5>>)),
         QMul(Structure, <<1, 10>>))

\* C12: the final score is 0.4*technical + 0.3*fundamental + 0.2*sentiment +
\* 0.1*structure, and the direction is BULLISH iff that score is above 0.6,
\* BEARISH iff it is below 0.4 and NEUTRAL otherwise; a score of exactly 0.4 or
\* 0.6 is NEUTRAL.
C12_DirectionByScore ==
    pc = "return" =>
        /\ prediction.direction = "BULLISH" <=> QLt(<<3, 5>>, RealScore)
        /\ prediction.direction = "BEARISH" <=> QLt(RealScore, <<2, 5>>)
        /\ prediction.direction = "NEUTRAL" <=> (QLe(<<2, 5>>, RealScore) /\ QLe(RealScore, <<3, 5>>))

\* C13: the reported confidence is |finalScore - 0.5| * 200 and lies in
\* [0, 100].
C13_ConfidenceFromScore ==
    pc = "return" =>
        /\ prediction.confidence = DMul(DAbs(DSub(Score, Lit(<<1, 2>>))), Lit(Q(200)))
        /\ DLe(DZero, prediction.confidence)
        /\ DLe(prediction.confidence, Lit(Q(100)))

\* a call whose score lies below 0.5 and whose confidence is positive
C13_Witness ==
    /\ pc = "return"
    /\ DLt(Score, Lit(<<1, 2>>))
    /\ DLt(DZero, prediction.confidence)

\* every final score the sub-scores can produce
DerivableScores ==
    {WeightedScore(t, f, s, st) :
        t \in {<<1, 5>>, <<1, 2>>, <<4, 5>>}, f \in {<<2, 5>>, <<7, 10>>},
        s \in {<<3, 10>>, <<7, 10>>}, st \in {<<1, 2>>, <<4, 5>>}}

Distance(score) == DAbs(DSub(score, Lit(<<1, 2>>)))
IsHighRisk(score) == DLt(Lit(<<7, 10>>), score) \/ DLt(score, Lit(<<3, 10>>))
LeastRisky(score) == \A other \in DerivableScores : DLe(Distance(score), Distance(other))

\* C14: risk_level is HIGH iff finalScore > 0.7 or finalScore < 0.3; every
\* other score is reported MEDIUM or LOW, by a secondary threshold on the
\* score, so that the derivable score nearest to 0.5, the least risky one, is
\* LOW.
C14_RiskBySecondaryThreshold ==
    pc = "return" =>
        /\ prediction.risk_level = "HIGH" <=> IsHighRisk(Score)
        /\ ~IsHighRisk(Score) => prediction.risk_level \in {"MEDIUM", "LOW"}
        /\ (~IsHighRisk(Score) /\ LeastRisky(Score)) => prediction.risk_level = "LOW"

\* C20: over every combination of sub-scores the final score stays within
\* [0.31, 0.75]; the confidence never exceeds 50, risk_level HIGH occurs only
\* together with direction BULLISH, direction BEARISH only when the latest RSI
\* is above 70, and risk_level LOW never.
C20_ScoreRange ==
    pc = "return" =>
        /\ Technical \in {<<1, 5>>, <<1, 2>>, <<4, 5>>}
        /\ Fundamental \in {<<2, 5>>, <<7, 10>>}
        /\ Sentiment \in {<<3, 10>>, <<7, 10>>}
        /\ Structure \in {<<1, 2>>, <<4, 5>>}
        /\ DLe(Lit(<<31, 100>>), Score) /\ DLe(Score, Lit(<<3, 4>>))
        /\ DLe(prediction.confidence, Lit(Q(50)))
        /\ prediction.risk_level = "HIGH" => prediction.direction = "BULLISH"
        /\ prediction.direction = "BEARISH" =>
              (technicals.t = "obj" /\ technicals.rsi.t = "num" /\ QLt(Q(70), technicals.rsi.v))
        /\ prediction.risk_level # "LOW"

\* a call that reaches the top of the range: score 0.75, confidence 50, HIGH
C20_Witness ==
    /\ pc = "return"
    /\ Score = Lit(<<3, 4>>)
    /\ prediction.confidence = Lit(Q(50))
    /\ prediction.risk_level = "HIGH"
    /\ prediction.direction = "BULLISH"

-----------------------------------------------------------------------------
(* analyzeElliottWave, analyzeWyckoff *)

PatternWindow == 20

\* the whole series instead of its tail
RecentPricesAll(hist) == hist

\* prices.slice(-20)
RecentPrices(hist) == LET arr == hist IN Slice(arr, -PatternWindow, Len(arr))

\* (cur - prev) / prev, with JavaScript's division by zero
RelativeChange(prev, cur) ==
    LET diff == NSub(Q(cur), Q(prev))
    IN  IF prev = 0
        THEN (IF diff = Q(0) THEN NaN ELSE Infinity(IF diff[1] > 0 THEN 1 ELSE -1))
        ELSE Num(NDiv(diff, Q(prev)))

\* c > 0 and c < 0 on a change
IsUpMove(c) == (c.t = "Infinity" /\ c.sign = 1) \/ (c.t = "num" /\ QLt(Q(0), c.v))
IsDownMove(c) == (c.t = "Infinity" /\ c.sign = -1) \/ (c.t = "num" /\ QLt(c.v, Q(0)))

\* `draw` is the value of Math.random() in this call
analyzeElliottWave(hist, draw) ==
    LET recentPrices == RecentPrices(hist)
        changes == [i \in 1..(IF Len(recentPrices) = 0 THEN 0 ELSE Len(recentPrices) - 1) |->
                        RelativeChange(recentPrices[i][2], recentPrices[i + 1][2])]
        upMoves == Len(SelectSeq(changes, IsUpMove))
        downMoves == Len(SelectSeq(changes, IsDownMove))
        trend == IF QLt(QMul(Q(downMoves), <<3, 2>>), Q(upMoves)) THEN "bullish_impulse"
                 ELSE IF QLt(QMul(Q(upMoves), <<3, 2>>), Q(downMoves)) THEN "bearish_impulse"
                 ELSE "unknown"
    IN  [trend |-> trend,
         waves |-> IF trend # "unknown" THEN <<trend>> ELSE <<>>,
         confidence |-> QMul(draw, Q(100))]

RECURSIVE MaxPriceIn(_, _)
MaxPriceIn(arr, n) ==
    IF n = 1 THEN arr[1][2]
    ELSE LET m == MaxPriceIn(arr, n - 1) IN IF arr[n][2] > m THEN arr[n][2] ELSE m

RECURSIVE MinPriceIn(_, _)
MinPriceIn(arr, n) ==
    IF n = 1 THEN arr[1][2]
    ELSE LET m == MinPriceIn(arr, n - 1) IN IF arr[n][2] < m THEN arr[n][2] ELSE m

RECURSIVE SumPriceIn(_, _)
SumPriceIn(arr, n) == IF n = 0 THEN 0 ELSE SumPriceIn(arr, n - 1) + arr[n][2]

\* the phase with the comparisons made non-strict
PhaseOfNonStrict(recentPrices) ==
    LET arr == recentPrices
        n == Len(arr)
        priceRange == Literal(MaxPriceIn(arr, n) - MinPriceIn(arr, n), 1)
        avgPrice == Literal(SumPriceIn(arr, n), n)
    IN  IF n = 0 THEN "consolidation"
        ELSE IF DLe(DMul(avgPrice, Lit(<<1, 10>>)), priceRange) THEN "markup_markdown"
        ELSE IF DLe(priceRange, DMul(avgPrice, Lit(<<1, 50>>))) THEN "accumulation_distribution"
        ELSE "consolidation"

\* the phase of a window of non-negative whole prices, in binary64: their sum
\* and range are exact, the mean is the rounded quotient.  On an empty window
\* the range is -Infinity and the mean NaN, and both comparisons are false
PhaseOf(recentPrices) ==
    LET arr == recentPrices
        n == Len(arr)
        priceRange == Literal(MaxPriceIn(arr, n) - MinPriceIn(arr, n), 1)
        avgPrice == Literal(SumPriceIn(arr, n), n)
    IN  IF n = 0 THEN "consolidation"
        ELSE IF DLt(DMul(avgPrice, Lit(<<1, 10>>)), priceRange) THEN "markup_markdown"
        ELSE IF DLt(priceRange, DMul(avgPrice, Lit(<<1, 50>>))) THEN "accumulation_distribution"
        ELSE "consolidation"

analyzeWyckoff(hist, vol) ==
    [phase |-> PhaseOf(RecentPrices(hist)),
     volumeAnalysis |-> "medium",
     priceVolumeRelationship |-> "neutral"]

-----------------------------------------------------------------------------
(* Specification of a call of analyzeElliottWave, analyzeWyckoff or
   calculateSupportResistance on a fetched series, followed by a second call on
   the same arguments *)

Orders == {"upFirst", "downFirst", "flatFirst"}
Bases == {0, 98}
WaveLengths == (0..2) \cup (PatternWindow..MaxWaveLen)

\* the k-th step of a series of n samples with u rises, d falls and flat steps
StepOf(order, n, u, d, k) ==
    LET flats == n - 1 - u - d
    IN  CASE order = "upFirst" -> IF k <= u THEN 1 ELSE IF k <= u + d THEN -1 ELSE 0
          [] order = "downFirst" -> IF k <= d THEN -1 ELSE IF k <= d + u THEN 1 ELSE 0
          [] order = "flatFirst" -> IF k <= flats THEN 0 ELSE IF k <= flats + u THEN 1 ELSE -1

RECURSIVE WalkPrice(_, _, _, _, _, _)
WalkPrice(order, n, u, d, base, i) ==
    IF i = 1 THEN base + d
    ELSE WalkPrice(order, n, u, d, base, i - 1) + StepOf(order, n, u, d, i - 1)

\* a series of n samples that never falls below `base`
Walk(order, n, u, d, base) == [i \in 1..n |-> <<i, WalkPrice(order, n, u, d, base, i)>>]

RandomDraws == {<<1, 4>>, <<3, 4>>}
VolumeArgs == {<<>>, <<1, 2, 3>>}

InitPatterns ==
    /\ pc = "call"
    /\ prices = <<>>
    /\ period = 0
    /\ multiplier = Q(0)
    /\ mant = 0
    /\ ret = NULL
    /\ \E order \in Orders, base \in Bases, n \in WaveLengths :
          \E u \in 0..n, d \in 0..n :
              /\ u + d <= (IF n = 0 THEN 0 ELSE n - 1)
              /\ historical = Walk(order, n, u, d, base)
    /\ technicals = NULL
    /\ sentiment = NULL
    /\ marketStructure = NULL
    /\ prediction = NULL
    /\ coin = NULL
    /\ outcome = "pending"
    /\ volume = <<>>
    /\ ret2 = NULL
    /\ message = NULL
    /\ frames = <<>>
    /\ error = NULL

CallElliottWave ==
    /\ pc = "call"
    /\ pc' = "returnElliottWave"
    /\ \E draw \in RandomDraws : ret' = analyzeElliottWave(historical, draw)
    /\ UNCHANGED <<prices, period, multiplier, mant, historical, technicals, sentiment,
                   marketStructure, prediction, coin, outcome, volume, ret2,
                   message, frames, error>>

CallElliottWaveAgain ==
    /\ pc = "returnElliottWave"
    /\ pc' = "returnTwice"
    /\ \E draw \in RandomDraws : ret2' = analyzeElliottWave(historical, draw)
    /\ UNCHANGED <<prices, period, multiplier, mant, ret, historical, technicals, sentiment,
                   marketStructure, prediction, coin, outcome, volume,
                   message, frames, error>>

CallWyckoff ==
    /\ pc = "call"
    /\ pc' = "returnWyckoff"
    /\ \E vol \in VolumeArgs :
          /\ volume' = vol
          /\ ret' = analyzeWyckoff(historical, vol)
    /\ UNCHANGED <<prices, period, multiplier, mant, historical, technicals, sentiment,
                   marketStructure, prediction, coin, outcome, ret2,
                   message, frames, error>>

CallWyckoffAgain ==
    /\ pc = "returnWyckoff"
    /\ pc' = "returnTwice"
    /\ ret2' = analyzeWyckoff(historical, volume)
    /\ UNCHANGED <<prices, period, multiplier, mant, ret, historical, technicals, sentiment,
                   marketStructure, prediction, coin, outcome, volume,
                   message, frames, error>>

CallLevels ==
    /\ pc = "call"
    /\ pc' = "returnLevels"
    /\ ret' = calculateSupportResistance(ClosePrices(historical))
    /\ UNCHANGED <<prices, period, multiplier, mant, historical, technicals, sentiment,
                   marketStructure, prediction, coin, outcome, volume, ret2,
                   message, frames, error>>

CallLevelsAgain ==
    /\ pc = "returnLevels"
    /\ pc' = "returnTwice"
    /\ ret2' = calculateSupportResistance(ClosePrices(historical))
    /\ UNCHANGED <<prices, period, multiplier, mant, ret, historical, technicals, sentiment,
                   marketStructure, prediction, coin, outcome, volume,
                   message, frames, error>>

NextPatterns ==
    \/ CallElliottWave
    \/ CallElliottWaveAgain
    \/ CallWyckoff
    \/ CallWyckoffAgain
    \/ CallLevels
    \/ CallLevelsAgain

SpecPatterns == InitPatterns /\ [][NextPatterns]_vars

\* the trailing samples of a series and the rises and falls among them
Trailing(hist) == SubSeq(hist, (IF Len(hist) > PatternWindow THEN Len(hist) - PatternWindow + 1 ELSE 1), Len(hist))
Rises(w) == Cardinality({i \in 1..(Len(w) - 1) : w[i + 1][2] > w[i][2]})
Falls(w) == Cardinality({i \in 1..(Len(w) - 1) : w[i + 1][2] < w[i][2]})

\* the series with every rise turned into a fall of the same size and back
Mirrored(hist) ==
    LET n == Len(hist)
        top == IF n = 0 THEN 0 ELSE MaxPriceIn(hist, n) + MinPriceIn(hist, n)
    IN  [i \in 1..n |-> <<hist[i][1], top - hist[i][2]>>]

Exchanged(trend) ==
    CASE trend = "bullish_impulse" -> "bearish_impulse"
      [] trend = "bearish_impulse" -> "bullish_impulse"
      [] trend = "unknown" -> "unknown"

\* C15: over the changes of the trailing 20 samples the trend is
\* bullish_impulse iff upMoves > 1.5 * downMoves, bearish_impulse iff
\* downMoves > 1.5 * upMoves and unknown otherwise; the two conditions are
\* never both true, and exchanging rises and falls exchanges the two labels.
C15_TrendByMoveRatio ==
    pc = "returnElliottWave" =>
        LET w == Trailing(historical)
            up == Rises(w)
            down == Falls(w)
        IN  /\ ret.trend = "bullish_impulse" <=> 2 * up > 3 * down
            /\ ret.trend = "bearish_impulse" <=> 2 * down > 3 * up
            /\ ret.trend = "unknown" <=> (2 * up <= 3 * down /\ 2 * down <= 3 * up)
            /\ ~(2 * up > 3 * down /\ 2 * down > 3 * up)
            /\ analyzeElliottWave(Mirrored(historical), Q(0)).trend = Exchanged(ret.trend)

\* a call on more than 20 samples whose trailing window is a bearish impulse
\* although the moves of the whole series are not
C15_Witness ==
    /\ pc = "returnElliottWave"
    /\ Len(historical) > PatternWindow
    /\ ret.trend = "bearish_impulse"
    /\ 2 * Falls(historical) <= 3 * Rises(historical)

\* C16: the phase is determined by the trailing 20 prices alone:
\* markup_markdown when their range is above 10% of their mean,
\* accumulation_distribution when it is below 2% of the mean, consolidation
\* otherwise; the result is the same for every volume argument.
C16_PhaseByRange ==
    pc = "returnWyckoff" =>
        LET w == Trailing(historical)
            n == Len(w)
            range == IF n = 0 THEN 0 ELSE MaxPriceIn(w, n) - MinPriceIn(w, n)
            sum == SumPriceIn(w, n)
        IN  /\ ret.phase \in {"markup_markdown", "accumulation_distribution", "consolidation"}
            /\ ret.phase = "markup_markdown" <=> (n > 0 /\ 10 * n * range > sum)
            /\ ret.phase = "accumulation_distribution" <=>
                  (n > 0 /\ 10 * n * range <= sum /\ 50 * n * range < sum)
            /\ ret = analyzeWyckoff(w, volume)
            /\ \A vol \in VolumeArgs : ret = analyzeWyckoff(historical, vol)

\* a call on more than 20 samples, with a volume, whose trailing range is
\* exactly 2% of the trailing mean: the phase is consolidation
C16_Witness ==
    /\ pc = "returnWyckoff"
    /\ Len(historical) > PatternWindow
    /\ volume # <<>>
    /\ LET w == Trailing(historical)
       IN  /\ MaxPriceIn(w, Len(w)) > MinPriceIn(w, Len(w))
           /\ 50 * Len(w) * (MaxPriceIn(w, Len(w)) - MinPriceIn(w, Len(w))) = SumPriceIn(w, Len(w))
    /\ ret.phase = "consolidation"

\* C17: two invocations of calculateSupportResistance, analyzeElliottWave or
\* analyzeWyckoff with identical arguments return identical results in every
\* field.
C17_SameArgumentsSameResult == pc = "returnTwice" => ret2 = ret

-----------------------------------------------------------------------------
(* The MCP WebSocket server: one message handled on one connection *)

\* an object is a function from the names of its members to their values
Obj(members) == [t |-> "obj", members |-> members]

\* property access: a member the object does not have reads as undefined
Get(obj, k) ==
    LET o == obj
    IN  IF o.t = "obj" /\ k \in DOMAIN o.members THEN o.members[k] ELSE UNDEFINED

\* the members of a record that are not undefined
Defined(all) ==
    LET a == all
    IN  [k \in {n \in DOMAIN a : a[n] # UNDEFINED} |-> a[k]]

\* a thrown exception
Throw(name, text) == [t |-> "throw", name |-> name, message |-> text]

\* texts on the wire: one that is no JSON, the JSON text of a value, and a
\* frame without payload
Malformed == [text |-> "malformed"]
JSONText(v) == [text |-> "json", value |-> v]
EmptyFrame == [text |-> "empty"]

\* JSON.parse: the value a JSON text denotes; a SyntaxError on any other text
JSONParse(text) ==
    IF text.text = "json" THEN text.value
    ELSE Throw("SyntaxError", "Unexpected token")

\* JSON.stringify: undefined has no JSON text, and an object's members whose
\* value is undefined are left out
JSONStringify(value) ==
    LET v == value
    IN  IF v = UNDEFINED THEN UNDEFINED
        ELSE IF v.t = "obj" THEN JSONText(Obj(Defined(v.members)))
        ELSE JSONText(v)

\* the result of the initialize method
InitializeResult ==
    Obj([protocolVersion |-> Str("2024-11-05"),
         serverInfo |-> Str("crypto-god-analysis-server")])

\* the result of the tools/list method
ToolsListResult == Obj([tools |-> <<Str("god_analysis")>>])

\* the object literal { jsonrpc, id, result } built from the request's members
Response(request, result) ==
    Obj([jsonrpc |-> Get(request, "jsonrpc"),
         id |-> Get(request, "id"),
         result |-> result])

\* handleMCPRequest up to its first await: the value it returns, the error it
\* throws, or the await of getMarketData it reaches
Dispatch(request) ==
    LET method == Get(request, "method")
        params == Get(request, "params")
    IN  CASE method = Str("initialize") ->
                [do |-> "return", value |-> Response(request, InitializeResult)]
          [] method = Str("tools/list") ->
                [do |-> "return", value |-> Response(request, ToolsListResult)]
          [] method = Str("tools/call") ->
                IF params.t \in {"undefined", "null"}
                THEN [do |-> "throw",
                      value |-> Throw("TypeError", "Cannot read properties of undefined")]
                ELSE IF Get(params, "name") = Str("god_analysis")
                THEN [do |-> "await", value |-> UNDEFINED]
                ELSE [do |-> "return", value |-> UNDEFINED]
          [] OTHER ->
                [do |-> "throw", value |-> Throw("Error", "Unknown method")]

\* the body of the try block up to the first await
TryBlock(text) ==
    LET request == JSONParse(text)
    IN  IF request.t = "throw" THEN [do |-> "throw", value |-> request]
        ELSE IF request.t \in {"undefined", "null"}
        THEN [do |-> "throw",
              value |-> Throw("TypeError", "Cannot read properties of null")]
        ELSE Dispatch(request)

\* the messages a client sends
Ids == {UNDEFINED, Num(Q(0)), Num(Q(7)), Str("a")}
Methods == {UNDEFINED, Str("initialize"), Str("tools/list"), Str("tools/call"),
            Str("resources/list")}
ParamsArgs ==
    {UNDEFINED,
     Obj([name |-> Str("god_analysis"), arguments |-> Obj([symbol |-> Str("bitcoin")])]),
     Obj([name |-> Str("god_analysis")]),
     Obj([name |-> Str("market_scan")])}

RequestText(id, method, params) ==
    JSONText(Obj(Defined([jsonrpc |-> Str("2.0"), id |-> id, method |-> method,
                          params |-> params])))

Messages ==
    {Malformed, JSONText(NULL)}
        \cup {RequestText(id, method, params) :
                id \in Ids, method \in Methods, params \in ParamsArgs}

\* the histories the upstream returns to a WebSocket call
WSHistories == {History(sh, n) : sh \in {"up", "zigzag"}, n \in {0, MaxHist}}

InitWS ==
    /\ pc = "listening"
    /\ prices = <<>>
    /\ period = 0
    /\ multiplier = Q(0)
    /\ mant = 0
    /\ ret = NULL
    /\ Idle

\* ws.on('message'): JSON.parse and the call of handleMCPRequest, up to the
\* first await
OnMessage ==
    /\ pc = "listening"
    /\ \E text \in Messages :
          /\ message' = text
          /\ LET step == TryBlock(text)
             IN  /\ pc' = CASE step.do = "return" -> "send"
                            [] step.do = "throw" -> "catch"
                            [] step.do = "await" -> "getMarketData"
                 /\ ret' = IF step.do = "return" THEN step.value ELSE ret
                 /\ error' = IF step.do = "throw" THEN step.value ELSE error
    /\ UNCHANGED <<prices, period, multiplier, mant, historical, technicals,
                   sentiment, marketStructure, prediction, coin, outcome, volume,
                   ret2, frames>>

\* await CryptoGodEngine.getMarketData(toolParams.symbol): the fetches succeed
FetchMarketData ==
    /\ pc = "getMarketData"
    /\ message # NULL
    /\ \E h \in WSHistories, cap \in MarketCaps, vol \in Volumes :
          /\ historical' = h
          /\ coin' = [market_cap |-> cap, total_volume |-> vol]
    /\ pc' = "calculateSimpleTechnicals"
    /\ UNCHANGED <<prices, period, multiplier, mant, ret, technicals, sentiment,
                   marketStructure, prediction, outcome, volume, ret2,
                   message, frames, error>>

\* a fetch fails: getMarketData throws, and the handler's catch block takes over
FetchMarketDataFails ==
    /\ pc = "getMarketData"
    /\ message # NULL
    /\ error' = Throw("Error", "Failed to fetch market data")
    /\ pc' = "catch"
    /\ UNCHANGED <<prices, period, multiplier, mant, ret, historical, technicals,
                   sentiment, marketStructure, prediction, coin, outcome, volume,
                   ret2, message, frames>>

\* getFearGreedIndex (which answers with a default when its fetch fails),
\* generateGodPrediction and the return statement of the god_analysis tool;
\* toolParams.symbol.toUpperCase() throws when the call named no symbol
ReturnAnalysis ==
    /\ pc = "generateGodPrediction"
    /\ message # NULL
    /\ prediction' = generateGodPrediction(technicals, coin, sentiment, marketStructure)
    /\ LET request == JSONParse(message)
           arguments == Get(Get(request, "params"), "arguments")
           toolParams == IF Truthy(arguments) THEN arguments ELSE Obj(<<>>)
       IN  IF Get(toolParams, "symbol") = UNDEFINED
           THEN /\ error' = Throw("TypeError", "Cannot read properties of undefined")
                /\ pc' = "catch"
                /\ ret' = ret
           ELSE /\ ret' = Response(request, Obj([content |-> prediction']))
                /\ pc' = "send"
                /\ error' = error
    /\ UNCHANGED <<prices, period, multiplier, mant, historical, technicals,
                   sentiment, marketStructure, coin, outcome, volume, ret2,
                   message, frames>>

\* ws.send(JSON.stringify(response)) with a response object
SendResponse ==
    /\ pc = "send"
    /\ ret # UNDEFINED
    /\ frames' = Append(frames, JSONStringify(ret))
    /\ outcome' = "returned"
    /\ pc' = "done"
    /\ UNCHANGED <<prices, period, multiplier, mant, ret, historical, technicals,
                   sentiment, marketStructure, prediction, coin, volume, ret2,
                   message, error>>

\* ws.send(undefined): handleMCPRequest left the switch by `break` and returned
\* nothing. Depending on the release of the ws library the call sends a frame
\* without payload or throws
SendUndefined ==
    /\ pc = "send"
    /\ JSONStringify(ret) = UNDEFINED
    /\ \/ /\ frames' = Append(frames, EmptyFrame)
          /\ outcome' = "returned"
          /\ pc' = "done"
          /\ error' = error
       \/ /\ error' = Throw("TypeError", "The data argument must be a string or a Buffer")
          /\ pc' = "catch"
          /\ UNCHANGED <<frames, outcome>>
    /\ UNCHANGED <<prices, period, multiplier, mant, ret, historical, technicals,
                   sentiment, marketStructure, prediction, coin, volume, ret2,
                   message>>

\* the catch block. `request` is declared by const inside the try block and by
\* nothing else the catch block can see, so evaluating `request?.id` throws a
\* ReferenceError before ws.send is reached: the handler's promise rejects
Catch ==
    /\ pc = "catch"
    /\ outcome' = "rejected"
    /\ pc' = "done"
    /\ UNCHANGED <<prices, period, multiplier, mant, ret, historical, technicals,
                   sentiment, marketStructure, prediction, coin, volume, ret2,
                   message, frames, error>>

NextWS ==
    \/ OnMessage
    \/ FetchMarketData
    \/ FetchMarketDataFails
    \/ CalculateSimpleTechnicals
    \/ GetNewsSentiment
    \/ MarketStructureAnalysis
    \/ ReturnAnalysis
    \/ SendResponse
    \/ SendUndefined
    \/ Catch

SpecWS == InitWS /\ [][NextWS]_vars

\* the id of the received request, null when the message has none
KnownId ==
    LET request == JSONParse(message)
    IN  IF Get(request, "id") = UNDEFINED THEN NULL ELSE Get(request, "id")

\* parsing or handling failed: an error was thrown, or the tool is unknown
HandlingFailed == error # NULL \/ ret = UNDEFINED

\* a JSON-RPC error reply with code -32603 that carries the request's id
IsErrorReply(frame) ==
    /\ frame.text = "json"
    /\ Get(Get(frame.value, "error"), "code") = Num(Q(-32603))
    /\ Get(frame.value, "id") = KnownId

\* C21: once the handler of a received message has ended, exactly one reply
\* has been sent on the connection: the serialised result of handleMCPRequest
\* or, when parsing or handling failed, an error reply with code -32603 and
\* the request's id (null when unknown)
C21_EveryMessageAnswered ==
    pc = "done" =>
        /\ Len(frames) = 1
        /\ IF HandlingFailed THEN IsErrorReply(frames[1])
           ELSE frames[1] = JSONStringify(ret)

====
